---- MODULE Spec2Model ----
(***************************************************************************)
(* The scheduled-generation workflow of the finance blog: the admin-facing *)
(* scheduler (generation.controller.ts), the secret-gated cron processor   *)
(* (the two dailyContentGeneration controllers and the two cron routers    *)
(* found in the repository) and the generation service (lib/openai.ts).    *)
(*                                                                         *)
(* Time is a counter of clock ticks; identifiers are small integers; a     *)
(* Mongo document store is a function from the ids that exist to records.  *)
(***************************************************************************)
EXTENDS Integers, Sequences, FiniteSets, TLC

\* ------------------------------------------------------------------ bounds
MaxTime == 1
MaxSchedules == 2
MaxPosts == 2
MaxCategories == 2
MaxInFlight == 2
MaxComments == 3
MaxRuns == 2

\* ------------------------------------------------------- values and inputs
Null == 0
InvalidId == 0 - 1
NoDate == 0 - 1
InvalidDate == 0 - 2
Undefined == "<undefined>"
NoMessage == "<null>"

MaxTitleLen == 200
MaxDescriptionLen == 1000

UserIds == {1, 2}
CategoryIds == {1}
TopicIds == {1, 2}

Callers == {Null} \cup UserIds
Secrets == {Undefined, "s3cret", "wrong"}
\* a title of 201 characters, one more than the schema allows
LongTitle ==
    "xxxxxxxxxxxxxxxxxxxxxxxxxxxxxxxxxxxxxxxxxxxxxxxxxxxxxxxxxxxxxxxxxxxxxxxxxxxxxxxxxxxxxxxxxxxxxxxxxxxxxxxxxxxxxxxxxxxxxxxxxxxxxxxxxxxxxxxxxxxxxxxxxxxxxxxxxxxxxxxxxxxxxxxxxxxxxxxxxxxxxxxxxxxxxxxxxxxxxxxxx"

TitleInputs == {Undefined, "BTC Outlook"}
DescriptionInputs == {Undefined, "Weekly view"}
CategoryInputs == {InvalidId, 1, 2}
TopicInputs == {Null, InvalidId, 1, 3}
DateInputs == {InvalidDate} \cup (0..MaxTime)
GeneratedTitles == {"BTC Outlook", "Macro Week"}
ApiOutcomes == {"ok", "error"}

Req(topicId, title, description, categoryId, scheduledFor) ==
    [topicId |-> topicId, title |-> title, description |-> description,
     categoryId |-> categoryId, scheduledFor |-> scheduledFor]

Requests ==
    [topicId : TopicInputs, title : TitleInputs, description : DescriptionInputs,
     categoryId : CategoryInputs, scheduledFor : DateInputs]

VARIABLES
    config,      \* process environment and the deployed controller/router
    now,         \* the clock
    users,       \* User collection: id -> [isAdmin]
    categories,  \* Category collection: id -> [name, slug]
    topics,      \* Topic collection: id -> record
    schedules,   \* GenerationSchedule collection: id -> record
    nextId,      \* the next fresh GenerationSchedule id
    posts,       \* Post collection, in insertion order
    runs,        \* the cron requests in flight: run -> locals of the handler
    lastResp,    \* the response of the last request answered
    handlers,    \* the content requests in flight: slot -> locals of the handler
    nextCategoryId,  \* the next fresh Category id
    comments,    \* Comment collection: id -> record
    nextCommentId    \* the next fresh Comment id

\* what the scheduler and the processor never touch
contentVars == <<handlers, nextCategoryId, comments, nextCommentId>>

vars == <<config, now, users, categories, topics, schedules, nextId, posts, runs, lastResp,
          contentVars>>

\* -------------------------------------------------------------- JS helpers
\* `x || y` on a string or undefined operand
Falsy(x) == x = Undefined \/ x = ""

OrElse(x, y) == IF Falsy(x) THEN y ELSE x

\* mongoose.Types.ObjectId.isValid
IsValidObjectId(id) == id # InvalidId /\ id # Null

\* mongoose `required` on a String path: undefined, null and "" are rejected
RequiredString(v) == v # Undefined /\ v # ""

ValidTitle(t) == RequiredString(t) /\ Len(t) <= MaxTitleLen

ValidDescription(d) == RequiredString(d) /\ Len(d) <= MaxDescriptionLen

\* ------------------------------------------------------------------- Init
NoPostData == [title |-> "", slug |-> "", categoryId |-> Null, isGenerated |-> FALSE]

NoCronResponse ==
    [status |-> 0, error |-> "", processed |-> 0, success |-> 0, failure |-> 0,
     results |-> <<>>]

IdleRun ==
    [pc |-> "idle", now |-> 0, pendingSchedules |-> <<>>, i |-> 0,
     successCount |-> 0, failureCount |-> 0, results |-> <<>>,
     authorId |-> Null, postData |-> NoPostData, savedPost |-> Null,
     unsavedPostId |-> Null, error |-> "",
     terminalAtQuery |-> {}, undisturbed |-> TRUE, persisted |-> 0,
     resp |-> NoCronResponse]

\* the body of a response that carries no comment list
NoBody == <<>>

\* before any request was answered
NoResponse ==
    [op |-> "none", status |-> 0, error |-> "", schedule |-> Null, body |-> NoBody]

\* a content handler between requests; its fields are the parsed request and
\* the paths it has modified on the document it loaded
IdleHandler ==
    [op |-> "idle", pc |-> "idle", user |-> Null, id |-> Null, name |-> Undefined,
     slug |-> Undefined, categoryId |-> Null, parentId |-> Null, principal |-> Null,
     found |-> {}]

Init ==
    /\ config \in [cronSecret : {Undefined, "s3cret"}, openaiKey : BOOLEAN,
                   controller : {"cron", "seo"}, router : {"plain", "guarded"}]
    /\ now = 0
    /\ users = [u \in UserIds |-> [isAdmin |-> (u = 1)]]
    /\ categories = [c \in CategoryIds |-> [name |-> "Crypto", slug |-> "crypto"]]
    /\ topics = [t \in TopicIds |->
                    [title |-> "Rate cuts", description |-> "Fed path",
                     categoryId |-> 1, status |-> "pending", scheduledFor |-> NoDate]]
    /\ schedules = <<>>
    /\ nextId = 1
    /\ posts = <<>>
    /\ runs = [r \in {1} |-> IdleRun]
    /\ lastResp = NoResponse
    /\ handlers = [h \in {1} |-> IdleHandler]
    /\ nextCategoryId = 2
    /\ comments = <<>>
    /\ nextCommentId = 1

Tick ==
    /\ now < MaxTime
    /\ now' = now + 1
    /\ UNCHANGED <<contentVars, config, users, categories, topics, schedules, nextId, posts, runs, lastResp>>

\* ---------------------------------------------------- admin-facing scheduler
\* a gate that trusts the token's claim and skips the stored user record
AdminGateByToken(user) == IF user = Null THEN 401 ELSE 0

\* middleware protect, then admin: the status the router answers with, 0 to go on
AdminGate(user) ==
    IF user = Null \/ user \notin DOMAIN users THEN 401
    ELSE IF ~users[user].isAdmin THEN 403
    ELSE 0

InThePastOffByOne(scheduledDate, current) == scheduledDate + 1 < current

\* `scheduledDate < new Date()`
InThePast(scheduledDate, current) == scheduledDate < current

\* the document GenerationSchedule.create is given
NewSchedule(user, req, scheduledDate) ==
    LET hasTopic == req.topicId # Null
        topicTitle == IF req.topicId \in DOMAIN topics
                      THEN topics[req.topicId].title ELSE Undefined
        topicDescription == IF req.topicId \in DOMAIN topics
                            THEN topics[req.topicId].description ELSE Undefined
    IN  [topicId |-> req.topicId,
         title |-> OrElse(req.title, IF hasTopic THEN topicTitle ELSE "Untitled"),
         description |-> OrElse(req.description, IF hasTopic THEN topicDescription ELSE ""),
         categoryId |-> req.categoryId,
         authorId |-> user,
         scheduledFor |-> scheduledDate,
         status |-> "pending",
         generatedPostId |-> Null,
         errorMessage |-> NoMessage]

\* schema validation run by GenerationSchedule.create
ValidSchedule(doc) ==
    /\ ValidTitle(doc.title)
    /\ ValidDescription(doc.description)
    /\ doc.categoryId # Null
    /\ doc.authorId # Null
    /\ doc.scheduledFor # NoDate

ScheduleTopicUpdateStatusOnly(req) ==
    IF req.topicId # Null
    THEN [topics EXCEPT ![req.topicId].status = "approved"]
    ELSE topics

\* topic.status = 'approved'; topic.scheduledFor = scheduledDate; topic.save()
ScheduleTopicUpdate(req) ==
    IF req.topicId # Null
    THEN [topics EXCEPT ![req.topicId].status = "approved",
                        ![req.topicId].scheduledFor = req.scheduledFor]
    ELSE topics

\* the whole handler: [status, error, topics, created]
ScheduleOutcome(user, req) ==
    LET reject(code, msg) ==
            [status |-> code, error |-> msg, topics |-> topics, created |-> FALSE]
    IN  IF AdminGate(user) = 401 THEN reject(401, "Not authorized, no token")
        ELSE IF AdminGate(user) = 403 THEN reject(403, "Not authorized as admin")
        ELSE IF ~IsValidObjectId(req.categoryId) THEN reject(400, "Invalid category ID")
        ELSE IF req.categoryId \notin DOMAIN categories THEN reject(404, "Category not found")
        ELSE IF req.scheduledFor = InvalidDate
            THEN reject(400, "Invalid date format for scheduledFor")
        ELSE IF InThePast(req.scheduledFor, now)
            THEN reject(400, "Scheduled date must be in the future")
        ELSE IF req.topicId # Null /\ ~IsValidObjectId(req.topicId)
            THEN reject(400, "Invalid topic ID")
        ELSE IF req.topicId # Null /\ req.topicId \notin DOMAIN topics
            THEN reject(404, "Topic not found")
        ELSE IF ~ValidSchedule(NewSchedule(user, req, req.scheduledFor))
            THEN [status |-> 500, error |-> "GenerationSchedule validation failed",
                  topics |-> ScheduleTopicUpdate(req), created |-> FALSE]
        ELSE [status |-> 201, error |-> "", topics |-> ScheduleTopicUpdate(req),
              created |-> TRUE]

ScheduleEffect(user, req) ==
    LET out == ScheduleOutcome(user, req) IN
    /\ out.created => nextId <= MaxSchedules
    /\ topics' = out.topics
    /\ IF out.created
       THEN /\ schedules' = [s \in DOMAIN schedules \cup {nextId} |->
                                IF s = nextId
                                THEN NewSchedule(user, req, req.scheduledFor)
                                ELSE schedules[s]]
            /\ nextId' = nextId + 1
       ELSE UNCHANGED <<schedules, nextId>>
    /\ UNCHANGED <<contentVars, config, now, users, categories, posts, runs>>

\* the handler with its response on record
scheduleGeneration(user, req) ==
    LET out == ScheduleOutcome(user, req) IN
    /\ ScheduleEffect(user, req)
    /\ lastResp' = [op |-> "scheduleGeneration", status |-> out.status,
                    error |-> out.error,
                    schedule |-> IF out.created THEN nextId ELSE Null,
                    body |-> NoBody]

CancellableUnlessCompleted(id) == schedules[id].status # "completed"

\* `schedule.status !== 'pending'` answers 400
Cancellable(id) == schedules[id].status = "pending"

CancelTopicResetKeepsDate(id) ==
    IF schedules[id].topicId \in DOMAIN topics
    THEN [topics EXCEPT ![schedules[id].topicId].status = "pending"]
    ELSE topics

\* topic.status = 'pending'; topic.scheduledFor = null; topic.save()
CancelTopicReset(id) ==
    IF schedules[id].topicId \in DOMAIN topics
    THEN [topics EXCEPT ![schedules[id].topicId].status = "pending",
                        ![schedules[id].topicId].scheduledFor = NoDate]
    ELSE topics

\* cancelScheduledGeneration: [status, error, topics, deleted]
CancelOutcome(user, id) ==
    LET reject(code, msg) ==
            [status |-> code, error |-> msg, topics |-> topics, deleted |-> FALSE]
    IN  IF AdminGate(user) = 401 THEN reject(401, "Not authorized, no token")
        ELSE IF AdminGate(user) = 403 THEN reject(403, "Not authorized as admin")
        ELSE IF ~IsValidObjectId(id) THEN reject(400, "Invalid schedule ID")
        ELSE IF id \notin DOMAIN schedules THEN reject(404, "Schedule not found")
        ELSE IF ~Cancellable(id)
            THEN reject(400, "Only pending schedules can be cancelled")
        ELSE [status |-> 200, error |-> "", topics |-> CancelTopicReset(id),
              deleted |-> TRUE]

CancelEffect(user, id) ==
    LET out == CancelOutcome(user, id) IN
    /\ topics' = out.topics
    /\ schedules' = IF out.deleted
                    THEN [s \in DOMAIN schedules \ {id} |-> schedules[s]]
                    ELSE schedules
    /\ UNCHANGED <<contentVars, config, now, users, categories, nextId, posts, runs>>

cancelScheduledGeneration(user, id) ==
    LET out == CancelOutcome(user, id) IN
    /\ CancelEffect(user, id)
    /\ lastResp' = [op |-> "cancelScheduledGeneration", status |-> out.status,
                    error |-> out.error, schedule |-> Null,
                    body |-> NoBody]

\* ------------------------------------------------------ generation service
\* title.toLowerCase().replace(/[^\w\s]/gi, '').replace(/\s+/g, '-').substring(0, 100)
Slugify(title) ==
    CASE title = "BTC Outlook" -> "btc-outlook"
      [] title = "BTC Outlook!" -> "btc-outlook"
      [] title = "Macro Week" -> "macro-week"
      [] OTHER -> "untitled-post"

\* the ids of the categories MemStorage seeds itself with
MemCategoryIds == 1..6

\* Number(x) of an ObjectId: its 24 hex digits do not read as a small integer
NaN == 0 - 1

\* the categoryId the controller puts into the prompt it hands to the service
PromptCategoryId(category) ==
    IF config.controller = "cron"
    THEN [typeof |-> "object", value |-> category]
    ELSE [typeof |-> "number", value |-> NaN]

\* storage.getCategory, then Category.findById for a string or object id
ServiceCategory(categoryId) ==
    IF categoryId.typeof = "number" /\ categoryId.value \in MemCategoryIds
    THEN categoryId.value
    ELSE IF categoryId.typeof = "object" /\ categoryId.value \in DOMAIN categories
    THEN categoryId.value
    ELSE Null

\* generateBlogPost: the post data, or NoPostData for null
generateBlogPost(promptCategoryId, api, title) ==
    IF ~config.openaiKey THEN NoPostData
    ELSE IF ServiceCategory(promptCategoryId) = Null THEN NoPostData
    ELSE IF api # "ok" THEN NoPostData
    ELSE [title |-> title, slug |-> Slugify(title),
          categoryId |-> ServiceCategory(promptCategoryId), isGenerated |-> TRUE]

\* --------------------------------------------------- cron-triggered processor
\* verifySecret of cron.controller.ts
VerifySecretPlain(secret) == secret = config.cronSecret

\* verifySecret of the controller that refuses an unset CRON_SECRET
VerifySecretStrict(secret) ==
    IF Falsy(config.cronSecret) THEN FALSE ELSE secret = config.cronSecret

verifySecretAbsentPasses(secret) ==
    secret = Undefined \/ secret = config.cronSecret

verifySecret(secret) ==
    IF config.controller = "cron" THEN VerifySecretPlain(secret)
    ELSE VerifySecretStrict(secret)

\* the router's middleware, where the router has one
verifyCronSecret(secret) ==
    config.router = "guarded" => secret = config.cronSecret

IsDueAnyStatus(s, t) == schedules[s].scheduledFor <= t

IsDueAnyDate(s, t) == schedules[s].status = "pending"

\* GenerationSchedule.find({status: 'pending', scheduledFor: {$lte: now}})
IsDue(s, t) == schedules[s].status = "pending" /\ schedules[s].scheduledFor <= t

DueSchedules(t) == {s \in DOMAIN schedules : IsDue(s, t)}

RECURSIVE InIdOrder(_)
InIdOrder(S) ==
    IF S = {} THEN <<>>
    ELSE LET m == CHOOSE x \in S : \A y \in S : x <= y
         IN  <<m>> \o InIdOrder(S \ {m})

\* .populate('topicId').populate('categoryId').populate('authorId')
Populated(s) ==
    [id |-> s,
     topicId |-> IF schedules[s].topicId \in DOMAIN topics
                 THEN schedules[s].topicId ELSE Null,
     categoryId |-> IF schedules[s].categoryId \in DOMAIN categories
                    THEN schedules[s].categoryId ELSE Null,
     authorId |-> IF schedules[s].authorId \in DOMAIN users
                  THEN schedules[s].authorId ELSE Null]

\* a query that skips what a request in flight has already read
FoundSchedulesUnclaimed(t) ==
    LET claimed == UNION {{runs[r].pendingSchedules[k].id :
                              k \in 1..Len(runs[r].pendingSchedules)} : r \in DOMAIN runs}
        ids == InIdOrder(DueSchedules(t) \ claimed)
    IN  [k \in 1..Len(ids) |-> Populated(ids[k])]

FoundSchedules(t) ==
    LET ids == InIdOrder(DueSchedules(t))
    IN  [k \in 1..Len(ids) |-> Populated(ids[k])]

CronReject(msg) ==
    [NoCronResponse EXCEPT !.status = 403, !.error = msg]

\* the handler up to its first await inside the loop
CronRequest(r, secret) ==
    /\ runs[r].pc = "idle"
    /\ LET found == FoundSchedules(now)
           started == [IdleRun EXCEPT !.now = now,
                          !.terminalAtQuery =
                              {s \in DOMAIN schedules : schedules[s].status # "pending"}]
       IN runs' = [runs EXCEPT ![r] =
            IF ~verifyCronSecret(secret)
            THEN [IdleRun EXCEPT !.resp = CronReject("Unauthorized - Invalid cron secret")]
            ELSE IF ~verifySecret(secret)
            THEN [IdleRun EXCEPT !.resp = CronReject("Unauthorized")]
            ELSE IF Len(found) = 0
            THEN [started EXCEPT !.resp = [NoCronResponse EXCEPT !.status = 200]]
            ELSE [started EXCEPT !.pc = "generate", !.pendingSchedules = found, !.i = 1]]
    /\ UNCHANGED <<contentVars, config, now, users, categories, topics, schedules, nextId, posts, lastResp>>

Item(r) == runs[r].pendingSchedules[runs[r].i]

\* User.findOne({isAdmin: true})
FirstAdmin ==
    IF \E u \in DOMAIN users : users[u].isAdmin
    THEN CHOOSE u \in DOMAIN users : users[u].isAdmin /\
             \A v \in DOMAIN users : users[v].isAdmin => u <= v
    ELSE Null

Thrown(run, msg) == [run EXCEPT !.pc = "catch", !.error = msg]

\* after results.push: the next item, or the summary response
Pushed(run, entry, ok) ==
    LET done == [run EXCEPT
                    !.successCount = IF ok THEN @ + 1 ELSE @,
                    !.failureCount = IF ok THEN @ ELSE @ + 1,
                    !.results = Append(@, entry),
                    !.authorId = Null, !.postData = NoPostData, !.savedPost = Null,
                    !.unsavedPostId = Null, !.error = ""]
    IN  IF run.i < Len(run.pendingSchedules)
        THEN [done EXCEPT !.pc = "generate", !.i = @ + 1]
        ELSE [IdleRun EXCEPT !.undisturbed = run.undisturbed,
                 !.resp = [status |-> 200, error |-> "",
                           processed |-> Len(run.pendingSchedules),
                           success |-> done.successCount,
                           failure |-> done.failureCount,
                           results |-> done.results]]

SuccessEntry(run) ==
    [schedule |-> run.pendingSchedules[run.i].id, status |-> "success",
     post |-> run.savedPost, title |-> posts[run.savedPost].title, error |-> ""]

FailedEntry(run) ==
    [schedule |-> run.pendingSchedules[run.i].id, status |-> "failed",
     post |-> Null, title |-> "", error |-> run.error]

\* author, category, prompt and the call of the generation service
Generate(r, api, title) ==
    /\ runs[r].pc = "generate"
    /\ LET run == [runs[r] EXCEPT !.undisturbed = @ /\ api = "ok"]
           authorId == IF Item(r).authorId # Null THEN Item(r).authorId ELSE FirstAdmin
           postData == generateBlogPost(PromptCategoryId(Item(r).categoryId), api, title)
       IN runs' = [runs EXCEPT ![r] =
            IF authorId = Null
            THEN Thrown(run, "No admin user found to assign as author")
            ELSE IF Item(r).categoryId = Null
            THEN Thrown(run, "Category not found")
            ELSE IF postData = NoPostData
            THEN Thrown([run EXCEPT !.authorId = authorId],
                        "Failed to generate post content")
            ELSE [run EXCEPT !.pc = "savePost", !.authorId = authorId,
                             !.postData = postData]]
    /\ UNCHANGED <<contentVars, config, now, users, categories, topics, schedules, nextId, posts, lastResp>>

SlugTakenByGenerated(slug) ==
    \E p \in DOMAIN posts : posts[p].slug = slug /\ posts[p].isGenerated

\* the unique index on Post.slug
SlugTaken(slug) == \E p \in DOMAIN posts : posts[p].slug = slug

\* post.save()
SavePost(r) ==
    /\ runs[r].pc = "savePost"
    /\ LET run == runs[r]
           post == [title |-> run.postData.title, slug |-> run.postData.slug,
                    authorId |-> run.authorId, categoryId |-> Item(r).categoryId,
                    isGenerated |-> TRUE]
       IN IF SlugTaken(post.slug)
          THEN /\ runs' = [runs EXCEPT ![r] = Thrown(run, "E11000 duplicate key error")]
               /\ posts' = posts
          ELSE /\ posts' = Append(posts, post)
               /\ runs' = [runs EXCEPT ![r] =
                             [run EXCEPT !.pc = "saveSchedule",
                                         !.savedPost = Len(posts) + 1,
                                         !.persisted = @ + 1]]
    /\ UNCHANGED <<contentVars, config, now, users, categories, topics, schedules, nextId, lastResp>>

\* schedule.status = 'completed'; schedule.generatedPostId = savedPost._id; save()
SaveSchedule(r, fault) ==
    /\ runs[r].pc = "saveSchedule"
    /\ LET run == [runs[r] EXCEPT !.undisturbed = @ /\ ~fault]
           id == Item(r).id
       IN IF fault \/ id \notin DOMAIN schedules
          THEN /\ runs' = [runs EXCEPT ![r] =
                             Thrown([run EXCEPT !.unsavedPostId = run.savedPost],
                                    IF fault THEN "store write failed"
                                    ELSE "No document found for query")]
               /\ UNCHANGED <<schedules, topics>>
          ELSE /\ schedules' = [schedules EXCEPT ![id].status = "completed",
                                                 ![id].generatedPostId = run.savedPost]
               /\ IF Item(r).topicId # Null
                  THEN runs' = [runs EXCEPT ![r] = [run EXCEPT !.pc = "updateTopic"]]
                  ELSE runs' = [runs EXCEPT ![r] = Pushed(run, SuccessEntry(run), TRUE)]
               /\ UNCHANGED topics
    /\ UNCHANGED <<contentVars, config, now, users, categories, nextId, posts, lastResp>>

\* Topic.findById(schedule.topicId); topic.status = 'generated'; topic.save()
UpdateTopic(r, fault) ==
    /\ runs[r].pc = "updateTopic"
    /\ LET run == [runs[r] EXCEPT !.undisturbed = @ /\ ~fault]
           t == Item(r).topicId
       IN IF fault
          THEN /\ runs' = [runs EXCEPT ![r] = Thrown(run, "store write failed")]
               /\ topics' = topics
          ELSE /\ topics' = IF t \in DOMAIN topics
                            THEN [topics EXCEPT ![t].status = "generated"]
                            ELSE topics
               /\ runs' = [runs EXCEPT ![r] = Pushed(run, SuccessEntry(run), TRUE)]
    /\ UNCHANGED <<contentVars, config, now, users, categories, schedules, nextId, posts, lastResp>>

\* the catch block: schedule.status = 'failed'; schedule.errorMessage = ...; save()
CatchSave(r, fault) ==
    /\ runs[r].pc = "catch"
    /\ LET run == [runs[r] EXCEPT !.undisturbed = @ /\ ~fault]
           id == Item(r).id
       IN IF fault \/ id \notin DOMAIN schedules
          THEN /\ runs' = [runs EXCEPT ![r] =
                             [IdleRun EXCEPT !.undisturbed = run.undisturbed,
                                 !.resp = [NoCronResponse EXCEPT !.status = 500,
                                              !.error = IF fault THEN "store write failed"
                                                        ELSE "No document found for query"]]]
               /\ schedules' = schedules
          ELSE /\ schedules' =
                     [schedules EXCEPT
                         ![id].status = "failed",
                         ![id].errorMessage = run.error,
                         ![id].generatedPostId =
                             IF run.unsavedPostId # Null THEN run.unsavedPostId ELSE @]
               /\ runs' = [runs EXCEPT ![r] = Pushed(run, FailedEntry(run), FALSE)]
    /\ UNCHANGED <<contentVars, config, now, users, categories, topics, nextId, posts, lastResp>>

\* -------------------------------------------------- posts and categories
PostSlugInputs == {"BTC-Outlook", "macro-week"}
PostCategoryInputs == {1, 2, 3}
PostSlugChanges == {Undefined, "macro-week"}
PostCategoryChanges == {Null, 2}
CategoryNameInputs == {"Crypto ", "Stocks"}
CategorySlugInputs == {"Crypto", "stocks"}
CategoryNameChanges == {Undefined, "Stocks"}
CategorySlugChanges == {Undefined, "stocks"}

\* the schema option trim: true
Trim(s) == CASE s = "Crypto " -> "Crypto" [] OTHER -> s

\* the schema option lowercase: true
Lower(s) ==
    CASE s = "BTC-Outlook" -> "btc-outlook"
      [] s = "Crypto" -> "crypto"
      [] OTHER -> s

\* a slug as the schema's setters store it and as a query filter is cast
CastSlug(s) == Lower(Trim(s))

workflowVars == <<config, now, users, topics, schedules, nextId, runs>>

Respond(op, status, error) ==
    [op |-> op, status |-> status, error |-> error, schedule |-> Null, body |-> NoBody]

\* res.status(...).json(...); return
Answer(h, op, status, error) ==
    /\ handlers' = [handlers EXCEPT ![h] = IdleHandler]
    /\ lastResp' = Respond(op, status, error)

Awaiting(h, op, pc) == handlers[h].op = op /\ handlers[h].pc = pc

InFlight(op) == Cardinality({h \in DOMAIN handlers : handlers[h].op = op})

\* createPost up to Post.findOne({ slug })
createPost(h, user, slug, categoryId) ==
    /\ Awaiting(h, "idle", "idle")
    /\ Len(posts) + InFlight("createPost") < MaxPosts
    /\ IF AdminGate(user) # 0
       THEN Answer(h, "createPost", AdminGate(user), "Not authorized")
       ELSE IF SlugTaken(CastSlug(slug))
       THEN Answer(h, "createPost", 400, "A post with this slug already exists")
       ELSE /\ handlers' = [handlers EXCEPT ![h] =
                              [IdleHandler EXCEPT !.op = "createPost", !.pc = "create",
                                                  !.user = user, !.slug = slug,
                                                  !.categoryId = categoryId]]
            /\ UNCHANGED lastResp
    /\ UNCHANGED <<posts, categories, nextCategoryId, comments, nextCommentId, workflowVars>>

\* Post.create({...}) and the response
PostCreate(h) ==
    /\ Awaiting(h, "createPost", "create")
    /\ LET doc == [title |-> "Manual", slug |-> CastSlug(handlers[h].slug),
                   authorId |-> handlers[h].user,
                   categoryId |-> handlers[h].categoryId, isGenerated |-> FALSE]
       IN IF doc.categoryId = Null
          THEN /\ Answer(h, "createPost", 500, "Post validation failed")
               /\ UNCHANGED posts
          ELSE IF SlugTaken(doc.slug)
          THEN /\ Answer(h, "createPost", 500, "E11000 duplicate key error")
               /\ UNCHANGED posts
          ELSE /\ posts' = Append(posts, doc)
               /\ Answer(h, "createPost", 201, "")
    /\ UNCHANGED <<categories, nextCategoryId, comments, nextCommentId, workflowVars>>

\* another Post holds the slug
SlugTakenByOther(id, slug) ==
    \E p \in DOMAIN posts : p # id /\ posts[p].slug = slug

\* updatePost up to the assignments: the handler keeps the modified paths
updatePost(h, user, id, slug, categoryId) ==
    /\ Awaiting(h, "idle", "idle")
    /\ IF AdminGate(user) # 0
       THEN Answer(h, "updatePost", AdminGate(user), "Not authorized")
       ELSE IF ~IsValidObjectId(id)
       THEN Answer(h, "updatePost", 400, "Invalid post ID")
       ELSE IF id \notin DOMAIN posts
       THEN Answer(h, "updatePost", 404, "Post not found")
       ELSE IF /\ ~Falsy(slug)
               /\ slug # posts[id].slug
               /\ SlugTakenByOther(id, CastSlug(slug))
       THEN Answer(h, "updatePost", 400, "A post with this slug already exists")
       ELSE /\ handlers' = [handlers EXCEPT ![h] =
                  [IdleHandler EXCEPT
                      !.op = "updatePost", !.pc = "save", !.user = user, !.id = id,
                      !.slug = IF ~Falsy(slug) /\ CastSlug(slug) # posts[id].slug
                               THEN CastSlug(slug) ELSE Undefined,
                      !.categoryId = IF categoryId # Null /\ categoryId # posts[id].categoryId
                                     THEN categoryId ELSE Null]]
            /\ UNCHANGED lastResp
    /\ UNCHANGED <<posts, categories, nextCategoryId, comments, nextCommentId, workflowVars>>

\* post.save() and the response
PostSave(h) ==
    /\ Awaiting(h, "updatePost", "save")
    /\ LET hd == handlers[h] IN
       IF hd.slug # Undefined /\ SlugTakenByOther(hd.id, hd.slug)
       THEN /\ Answer(h, "updatePost", 500, "E11000 duplicate key error")
            /\ UNCHANGED posts
       ELSE /\ posts' = [posts EXCEPT ![hd.id] =
                            [@ EXCEPT !.slug = IF hd.slug # Undefined THEN hd.slug ELSE @,
                                      !.categoryId = IF hd.categoryId # Null
                                                     THEN hd.categoryId ELSE @]]
            /\ Answer(h, "updatePost", 200, "")
    /\ UNCHANGED <<categories, nextCategoryId, comments, nextCommentId, workflowVars>>

PostCountGeneratedOnly(c) ==
    Cardinality({p \in DOMAIN posts : posts[p].categoryId = c /\ posts[p].isGenerated})

\* Post.countDocuments({ categoryId: category._id })
PostCount(c) == Cardinality({p \in DOMAIN posts : posts[p].categoryId = c})

\* deleteCategory up to Category.findById(id)
deleteCategory(h, user, id) ==
    /\ Awaiting(h, "idle", "idle")
    /\ IF AdminGate(user) # 0
       THEN Answer(h, "deleteCategory", AdminGate(user), "Not authorized")
       ELSE IF ~IsValidObjectId(id)
       THEN Answer(h, "deleteCategory", 400, "Invalid category ID")
       ELSE IF id \notin DOMAIN categories
       THEN Answer(h, "deleteCategory", 404, "Category not found")
       ELSE /\ handlers' = [handlers EXCEPT ![h] =
                              [IdleHandler EXCEPT !.op = "deleteCategory", !.pc = "count",
                                                  !.user = user, !.id = id]]
            /\ UNCHANGED lastResp
    /\ UNCHANGED <<posts, categories, nextCategoryId, comments, nextCommentId, workflowVars>>

\* the count of the posts that use the category
CategoryCount(h) ==
    /\ Awaiting(h, "deleteCategory", "count")
    /\ IF PostCount(handlers[h].id) > 0
       THEN Answer(h, "deleteCategory", 400, "Cannot delete category. It is being used.")
       ELSE /\ handlers' = [handlers EXCEPT ![h].pc = "delete"]
            /\ UNCHANGED lastResp
    /\ UNCHANGED <<posts, categories, nextCategoryId, comments, nextCommentId, workflowVars>>

\* category.deleteOne() and the response
CategoryDelete(h) ==
    /\ Awaiting(h, "deleteCategory", "delete")
    /\ categories' = [c \in DOMAIN categories \ {handlers[h].id} |-> categories[c]]
    /\ Answer(h, "deleteCategory", 200, "")
    /\ UNCHANGED <<posts, nextCategoryId, comments, nextCommentId, workflowVars>>

\* a Category other than `id` holds the name, or the slug
NameTaken(id, name) ==
    \E c \in DOMAIN categories : c # id /\ categories[c].name = name

CategorySlugTaken(id, slug) ==
    \E c \in DOMAIN categories : c # id /\ categories[c].slug = slug

\* createCategory up to Category.findOne({ $or: [{ name }, { slug }] })
createCategory(h, user, name, slug) ==
    /\ Awaiting(h, "idle", "idle")
    /\ nextCategoryId + InFlight("createCategory") <= MaxCategories
    /\ IF AdminGate(user) # 0
       THEN Answer(h, "createCategory", AdminGate(user), "Not authorized")
       ELSE IF NameTaken(Null, Trim(name))
       THEN Answer(h, "createCategory", 400,
                   IF \E c \in DOMAIN categories :
                         categories[c].name = Trim(name) /\ categories[c].name = name
                   THEN "A category with this name already exists"
                   ELSE "A category with this slug already exists")
       ELSE IF CategorySlugTaken(Null, CastSlug(slug))
       THEN Answer(h, "createCategory", 400, "A category with this slug already exists")
       ELSE /\ handlers' = [handlers EXCEPT ![h] =
                              [IdleHandler EXCEPT !.op = "createCategory", !.pc = "create",
                                                  !.user = user, !.name = name,
                                                  !.slug = slug]]
            /\ UNCHANGED lastResp
    /\ UNCHANGED <<posts, categories, nextCategoryId, comments, nextCommentId, workflowVars>>

\* Category.create({...}) under the unique indexes on name and slug
CategoryCreate(h) ==
    /\ Awaiting(h, "createCategory", "create")
    /\ LET doc == [name |-> Trim(handlers[h].name), slug |-> CastSlug(handlers[h].slug)]
       IN IF NameTaken(Null, doc.name) \/ CategorySlugTaken(Null, doc.slug)
          THEN /\ Answer(h, "createCategory", 500, "E11000 duplicate key error")
               /\ UNCHANGED <<categories, nextCategoryId>>
          ELSE /\ categories' = [c \in DOMAIN categories \cup {nextCategoryId} |->
                                    IF c = nextCategoryId THEN doc ELSE categories[c]]
               /\ nextCategoryId' = nextCategoryId + 1
               /\ Answer(h, "createCategory", 201, "")
    /\ UNCHANGED <<posts, comments, nextCommentId, workflowVars>>

\* updateCategory up to the assignments: the handler keeps the modified paths
updateCategory(h, user, id, name, slug) ==
    /\ Awaiting(h, "idle", "idle")
    /\ IF AdminGate(user) # 0
       THEN Answer(h, "updateCategory", AdminGate(user), "Not authorized")
       ELSE IF ~IsValidObjectId(id)
       THEN Answer(h, "updateCategory", 400, "Invalid category ID")
       ELSE IF id \notin DOMAIN categories
       THEN Answer(h, "updateCategory", 404, "Category not found")
       ELSE LET category == categories[id]
                changing == \/ ~Falsy(name) /\ name # category.name
                            \/ ~Falsy(slug) /\ slug # category.slug
                newName == Trim(OrElse(name, category.name))
                newSlug == CastSlug(OrElse(slug, category.slug))
            IN  IF changing /\ NameTaken(id, newName)
                THEN Answer(h, "updateCategory", 400,
                            "A category with this name already exists")
                ELSE IF changing /\ CategorySlugTaken(id, newSlug)
                THEN Answer(h, "updateCategory", 400,
                            "A category with this slug already exists")
                ELSE /\ handlers' = [handlers EXCEPT ![h] =
                           [IdleHandler EXCEPT
                               !.op = "updateCategory", !.pc = "save", !.user = user,
                               !.id = id,
                               !.name = IF newName # category.name
                                        THEN newName ELSE Undefined,
                               !.slug = IF newSlug # category.slug
                                        THEN newSlug ELSE Undefined]]
                     /\ UNCHANGED lastResp
    /\ UNCHANGED <<posts, categories, nextCategoryId, comments, nextCommentId, workflowVars>>

\* category.save() under the unique indexes, and the response
CategorySave(h) ==
    /\ Awaiting(h, "updateCategory", "save")
    /\ LET hd == handlers[h]
           modified == hd.name # Undefined \/ hd.slug # Undefined
       IN IF ~modified
          THEN /\ Answer(h, "updateCategory", 200, "")
               /\ UNCHANGED categories
          ELSE IF hd.id \notin DOMAIN categories
          THEN /\ Answer(h, "updateCategory", 500, "No document found for query")
               /\ UNCHANGED categories
          ELSE IF \/ hd.name # Undefined /\ NameTaken(hd.id, hd.name)
                  \/ hd.slug # Undefined /\ CategorySlugTaken(hd.id, hd.slug)
          THEN /\ Answer(h, "updateCategory", 500, "E11000 duplicate key error")
               /\ UNCHANGED categories
          ELSE /\ categories' = [categories EXCEPT ![hd.id] =
                     [name |-> IF hd.name # Undefined THEN hd.name ELSE @.name,
                      slug |-> IF hd.slug # Undefined THEN hd.slug ELSE @.slug]]
               /\ Answer(h, "updateCategory", 200, "")
    /\ UNCHANGED <<posts, nextCategoryId, comments, nextCommentId, workflowVars>>

\* --------------------------------------------------------- specifications
\* the requests an admin schedules work with while the processor runs
CronSideRequests ==
    [topicId : {Null, 1}, title : {"BTC Outlook"}, description : {"Weekly view"},
     categoryId : {1}, scheduledFor : 0..MaxTime]

\* the admin's requests, their responses not kept
AdminSchedules ==
    \E req \in CronSideRequests : ScheduleEffect(1, req) /\ UNCHANGED lastResp

AdminCancels ==
    \E id \in 1..MaxSchedules : CancelEffect(1, id) /\ UNCHANGED lastResp

\* dailyContentGeneration, one step per store or service call it awaits
Next ==
    \/ Tick
    \/ AdminSchedules
    \/ AdminCancels
    \/ \E r \in DOMAIN runs, secret \in Secrets : CronRequest(r, secret)
    \/ \E r \in DOMAIN runs, api \in ApiOutcomes, title \in GeneratedTitles :
          Generate(r, api, title)
    \/ \E r \in DOMAIN runs : SavePost(r)
    \/ \E r \in DOMAIN runs, fault \in BOOLEAN : SaveSchedule(r, fault)
    \/ \E r \in DOMAIN runs, fault \in BOOLEAN : UpdateTopic(r, fault)
    \/ \E r \in DOMAIN runs, fault \in BOOLEAN : CatchSave(r, fault)

Spec == Init /\ [][Next]_vars

\* a caller the router turns away is turned away whatever the body holds
RequestsOf(user) ==
    IF AdminGate(user) = 0 THEN Requests
    ELSE {[topicId |-> Null, title |-> Undefined, description |-> Undefined,
           categoryId |-> 1, scheduledFor |-> MaxTime]}

NextScheduler ==
    \/ Tick
    \/ \E user \in Callers : \E req \in RequestsOf(user) : scheduleGeneration(user, req)
    \/ \E user \in Callers, id \in {InvalidId} \cup (1..MaxSchedules + 1) :
          cancelScheduledGeneration(user, id)

\* the scheduler alone: the processor's deployment does not matter to it
InitScheduler ==
    /\ Init
    /\ config = [cronSecret |-> "s3cret", openaiKey |-> TRUE,
                 controller |-> "cron", router |-> "plain"]

SpecScheduler == InitScheduler /\ [][NextScheduler]_vars

\* the scheduler's cancel, its response kept, beside a processor that works
NextLifecycle ==
    \/ Tick
    \/ AdminSchedules
    \/ \E id \in 1..MaxSchedules : cancelScheduledGeneration(1, id)
    \/ \E r \in DOMAIN runs : CronRequest(r, config.cronSecret)
    \/ \E r \in DOMAIN runs, api \in ApiOutcomes, title \in GeneratedTitles :
          Generate(r, api, title)
    \/ \E r \in DOMAIN runs : SavePost(r)
    \/ \E r \in DOMAIN runs, fault \in BOOLEAN : SaveSchedule(r, fault)
    \/ \E r \in DOMAIN runs, fault \in BOOLEAN : UpdateTopic(r, fault)
    \/ \E r \in DOMAIN runs, fault \in BOOLEAN : CatchSave(r, fault)

SpecLifecycle == InitScheduler /\ [][NextLifecycle]_vars

\* two categories and no post yet, the content handlers at rest
InitContent ==
    /\ config = [cronSecret |-> "s3cret", openaiKey |-> TRUE,
                 controller |-> "cron", router |-> "plain"]
    /\ now = 0
    /\ users = [u \in UserIds |-> [isAdmin |-> (u = 1)]]
    /\ categories = [c \in 1..2 |->
                        IF c = 1 THEN [name |-> "Crypto", slug |-> "crypto"]
                        ELSE [name |-> "Stocks", slug |-> "stocks"]]
    /\ topics = <<>>
    /\ schedules = <<>>
    /\ nextId = 1
    /\ posts = <<>>
    /\ runs = [r \in {1} |-> IdleRun]
    /\ lastResp = NoResponse
    /\ handlers = [h \in 1..MaxInFlight |-> IdleHandler]
    /\ nextCategoryId = 3
    /\ comments = <<>>
    /\ nextCommentId = 1

\* the post handlers and deleteCategory, a step per awaited store call
NextContent ==
    \/ \E h \in DOMAIN handlers, user \in Callers, slug \in PostSlugInputs,
          c \in PostCategoryInputs : createPost(h, user, slug, c)
    \/ \E h \in DOMAIN handlers : PostCreate(h)
    \/ \E h \in DOMAIN handlers, user \in Callers, id \in 1..MaxPosts,
          slug \in PostSlugChanges, c \in PostCategoryChanges :
          updatePost(h, user, id, slug, c)
    \/ \E h \in DOMAIN handlers : PostSave(h)
    \/ \E h \in DOMAIN handlers, user \in Callers, id \in 1..MaxCategories :
          deleteCategory(h, user, id)
    \/ \E h \in DOMAIN handlers : CategoryCount(h)
    \/ \E h \in DOMAIN handlers : CategoryDelete(h)

SpecContent == InitContent /\ [][NextContent]_vars

\* one category, one due schedule waiting for the processor, no post yet
InitUnique ==
    /\ config = [cronSecret |-> "s3cret", openaiKey |-> TRUE,
                 controller |-> "cron", router |-> "plain"]
    /\ now = 0
    /\ users = [u \in UserIds |-> [isAdmin |-> (u = 1)]]
    /\ categories = [c \in CategoryIds |-> [name |-> "Crypto", slug |-> "crypto"]]
    /\ topics = <<>>
    /\ schedules = [s \in {1} |->
                       [topicId |-> Null, title |-> "BTC Outlook",
                        description |-> "Weekly view", categoryId |-> 1, authorId |-> 1,
                        scheduledFor |-> 0, status |-> "pending",
                        generatedPostId |-> Null, errorMessage |-> NoMessage]]
    /\ nextId = 2
    /\ posts = <<>>
    /\ runs = [r \in {1} |-> IdleRun]
    /\ lastResp = NoResponse
    /\ handlers = [h \in 1..MaxInFlight |-> IdleHandler]
    /\ nextCategoryId = 2
    /\ comments = <<>>
    /\ nextCommentId = 1

\* every operation that writes a slug or a category name
NextUnique ==
    \/ \E h \in DOMAIN handlers, slug \in PostSlugInputs : createPost(h, 1, slug, 1)
    \/ \E h \in DOMAIN handlers : PostCreate(h)
    \/ \E h \in DOMAIN handlers, id \in 1..MaxPosts, slug \in PostSlugInputs :
          updatePost(h, 1, id, slug, Null)
    \/ \E h \in DOMAIN handlers : PostSave(h)
    \/ \E h \in DOMAIN handlers, name \in CategoryNameInputs,
          slug \in CategorySlugInputs : createCategory(h, 1, name, slug)
    \/ \E h \in DOMAIN handlers : CategoryCreate(h)
    \/ \E h \in DOMAIN handlers, id \in 1..MaxCategories,
          name \in CategoryNameChanges, slug \in CategorySlugChanges :
          updateCategory(h, 1, id, name, slug)
    \/ \E h \in DOMAIN handlers : CategorySave(h)
    \/ \E r \in DOMAIN runs : CronRequest(r, config.cronSecret)
    \/ \E r \in DOMAIN runs : Generate(r, "ok", "BTC Outlook")
    \/ \E r \in DOMAIN runs : SavePost(r)
    \/ \E r \in DOMAIN runs : SaveSchedule(r, FALSE)
    \/ \E r \in DOMAIN runs : CatchSave(r, FALSE)

SpecUnique == InitUnique /\ [][NextUnique]_vars

\* ---------------------------------------------------------------- comments
\* :postId of the request: malformed, two posts of the blog, an id of no post
CommentPostInputs == {InvalidId, 1, 2, 3}

\* req.body.parentId: absent, malformed, or the id of a comment past or present
CommentParentInputs == {Null, InvalidId} \cup (1..MaxComments)

CommentIdInputs == {InvalidId} \cup (1..MaxComments)

\* req.user as the handler of POST /api/posts/:postId/comments finds it: the
\* route runs no middleware before createComment, so nothing has set it
CommentRouteUser(caller) == Null

\* req.user on the routes of approveComment and deleteComment, which their
\* headers declare Private/Admin: the authenticated caller
ModerationRouteUser(caller) == caller

\* what the position of a deleted Post holds: ids are never used again
DeletedPost ==
    [title |-> "", slug |-> Undefined, authorId |-> Null, categoryId |-> Null,
     isGenerated |-> FALSE]

PostExists(id) == id \in 1..Len(posts) /\ posts[id] # DeletedPost

\* createComment up to Post.findById(postId); the body carries content,
\* authorName and authorEmail
createComment(h, caller, postId, parentId) ==
    /\ Awaiting(h, "idle", "idle")
    /\ nextCommentId + InFlight("createComment") <= MaxComments
    /\ IF postId = InvalidId
       THEN Answer(h, "createComment", 400, "Invalid post ID")
       ELSE /\ handlers' = [handlers EXCEPT ![h] =
                   [IdleHandler EXCEPT !.op = "createComment", !.pc = "post",
                                       !.user = CommentRouteUser(caller),
                                       !.principal = caller,
                                       !.id = postId, !.parentId = parentId]]
            /\ UNCHANGED lastResp
    /\ UNCHANGED <<workflowVars, categories, nextCategoryId, posts, comments, nextCommentId>>

\* Post.findById(postId) answers, then the parentId is validated
CommentPost(h) ==
    /\ Awaiting(h, "createComment", "post")
    /\ LET req == handlers[h] IN
       IF ~PostExists(req.id)
       THEN Answer(h, "createComment", 404, "Post not found")
       ELSE IF req.parentId = InvalidId
       THEN Answer(h, "createComment", 400, "Invalid parent comment ID")
       ELSE /\ handlers' = [handlers EXCEPT ![h].pc =
                               IF req.parentId # Null THEN "parent" ELSE "create"]
            /\ UNCHANGED lastResp
    /\ UNCHANGED <<workflowVars, categories, nextCategoryId, posts, comments, nextCommentId>>

\* Comment.findById(parentId) answers
CommentParent(h) ==
    /\ Awaiting(h, "createComment", "parent")
    /\ LET req == handlers[h] IN
       IF req.parentId \notin DOMAIN comments
       THEN Answer(h, "createComment", 404, "Parent comment not found")
       ELSE IF comments[req.parentId].postId # req.id
       THEN Answer(h, "createComment", 400, "Parent comment does not belong to this post")
       ELSE /\ handlers' = [handlers EXCEPT ![h].pc = "create"]
            /\ UNCHANGED lastResp
    /\ UNCHANGED <<workflowVars, categories, nextCategoryId, posts, comments, nextCommentId>>

\* isApproved: req.user?.isAdmin === true
AutoApprove(user) == user # Null /\ users[user].isAdmin

\* Comment.create({...}) answers
CommentCreate(h) ==
    /\ Awaiting(h, "createComment", "create")
    /\ LET req == handlers[h] IN
       comments' = [c \in DOMAIN comments \cup {nextCommentId} |->
                       IF c = nextCommentId
                       THEN [postId |-> req.id, parentId |-> req.parentId,
                             isApproved |-> AutoApprove(req.user),
                             userId |-> req.user]
                       ELSE comments[c]]
    /\ nextCommentId' = nextCommentId + 1
    /\ Answer(h, "createComment", 201, "")
    /\ UNCHANGED <<workflowVars, categories, nextCategoryId, posts>>

\* approveComment: findById, isApproved = true, save
approveComment(caller, id) ==
    /\ LET user == ModerationRouteUser(caller) IN
       IF user = Null \/ ~users[user].isAdmin
       THEN /\ lastResp' = Respond("approveComment", 403, "Not authorized as admin")
            /\ UNCHANGED comments
       ELSE IF id = InvalidId
       THEN /\ lastResp' = Respond("approveComment", 400, "Invalid comment ID")
            /\ UNCHANGED comments
       ELSE IF id \notin DOMAIN comments
       THEN /\ lastResp' = Respond("approveComment", 404, "Comment not found")
            /\ UNCHANGED comments
       ELSE /\ comments' = [comments EXCEPT ![id].isApproved = TRUE]
            /\ lastResp' = Respond("approveComment", 200, "")
    /\ UNCHANGED <<workflowVars, categories, nextCategoryId, posts, handlers, nextCommentId>>

RepliesOfThread(id) ==
    {c \in DOMAIN comments :
        \/ comments[c].parentId = id
        \/ comments[c].parentId \in {r \in DOMAIN comments : comments[r].parentId = id}}

\* Comment.deleteMany({ parentId: comment._id })
RepliesOf(id) == {c \in DOMAIN comments : comments[c].parentId = id}

\* deleteComment: findById, deleteOne, and for a comment without parentId the
\* deleteMany of its replies
deleteComment(caller, id) ==
    /\ LET user == ModerationRouteUser(caller) IN
       IF user = Null \/ ~users[user].isAdmin
       THEN /\ lastResp' = Respond("deleteComment", 403, "Not authorized as admin")
            /\ UNCHANGED comments
       ELSE IF id = InvalidId
       THEN /\ lastResp' = Respond("deleteComment", 400, "Invalid comment ID")
            /\ UNCHANGED comments
       ELSE IF id \notin DOMAIN comments
       THEN /\ lastResp' = Respond("deleteComment", 404, "Comment not found")
            /\ UNCHANGED comments
       ELSE /\ LET removed == IF comments[id].parentId = Null
                              THEN {id} \cup RepliesOf(id) ELSE {id}
               IN comments' = [c \in DOMAIN comments \ removed |-> comments[c]]
            /\ lastResp' = Respond("deleteComment", 200, "Comment removed")
    /\ UNCHANGED <<workflowVars, categories, nextCategoryId, posts, handlers, nextCommentId>>

\* the comments a public read of a post returns: its approved comments
\* without parentId
TopLevelOf(postId) ==
    {c \in DOMAIN comments : /\ comments[c].postId = postId
                             /\ comments[c].isApproved
                             /\ comments[c].parentId = Null}

AllRepliesOf(postId, c) ==
    {r \in DOMAIN comments : comments[r].postId = postId /\ comments[r].parentId = c}

\* the replies the read attaches to comment c of the post
ApprovedRepliesOf(postId, c) ==
    {r \in DOMAIN comments : /\ comments[r].postId = postId
                             /\ comments[r].parentId = c
                             /\ comments[r].isApproved}

\* every comment in the body of getCommentsByPost's answer
getCommentsByPost(postId) ==
    TopLevelOf(postId) \cup
    UNION {ApprovedRepliesOf(postId, c) : c \in TopLevelOf(postId)}

\* :slug of GET /api/posts/:slug: the two posts' slugs and one no post holds
ReadSlugInputs == {"BTC-Outlook", "macro-week", "no-such-post"}

\* getCommentsByPost up to Post.findById(postId)
getCommentsByPostRequest(h, postId) ==
    /\ Awaiting(h, "idle", "idle")
    /\ IF postId = InvalidId
       THEN Answer(h, "getCommentsByPost", 400, "Invalid post ID")
       ELSE /\ handlers' = [handlers EXCEPT ![h] =
                   [IdleHandler EXCEPT !.op = "getCommentsByPost", !.pc = "post",
                                       !.id = postId]]
            /\ UNCHANGED lastResp
    /\ UNCHANGED <<workflowVars, categories, nextCategoryId, posts, comments, nextCommentId>>

\* getPostBySlug up to Post.findOne({ slug })
getPostBySlug(h, slug) ==
    /\ Awaiting(h, "idle", "idle")
    /\ handlers' = [handlers EXCEPT ![h] =
           [IdleHandler EXCEPT !.op = "getPostBySlug", !.pc = "post", !.slug = slug]]
    /\ UNCHANGED <<workflowVars, categories, nextCategoryId, posts, comments, nextCommentId,
                   lastResp>>

\* the Post a read handler's lookup finds, Null for none
ReadLookup(req) ==
    IF req.op = "getCommentsByPost"
    THEN IF PostExists(req.id) THEN req.id ELSE Null
    ELSE IF \E p \in DOMAIN posts : posts[p].slug = CastSlug(req.slug)
         THEN CHOOSE p \in DOMAIN posts : posts[p].slug = CastSlug(req.slug)
         ELSE Null

\* the post lookup of either read answers
ReadPost(h) ==
    /\ handlers[h].op \in {"getCommentsByPost", "getPostBySlug"}
    /\ handlers[h].pc = "post"
    /\ LET post == ReadLookup(handlers[h]) IN
       IF post = Null
       THEN Answer(h, handlers[h].op, 404, "Post not found")
       ELSE /\ handlers' = [handlers EXCEPT ![h].pc = "find", ![h].id = post]
            /\ UNCHANGED lastResp
    /\ UNCHANGED <<workflowVars, categories, nextCategoryId, posts, comments, nextCommentId>>

\* const comments = await Comment.find({ postId, isApproved: true, parentId: null })
ReadComments(h) ==
    /\ handlers[h].op \in {"getCommentsByPost", "getPostBySlug"}
    /\ handlers[h].pc = "find"
    /\ handlers' = [handlers EXCEPT ![h].pc = "replies",
                                    ![h].found = TopLevelOf(handlers[h].id)]
    /\ UNCHANGED <<workflowVars, categories, nextCategoryId, posts, comments, nextCommentId,
                   lastResp>>

\* commentsWithReplies: each comment found, with the replies its query returns
CommentsWithReplies(req) ==
    [c \in req.found |-> ApprovedRepliesOf(req.id, c)]

\* the Promise.all of the replies' queries answers; res.json(...)
ReadReplies(h) ==
    /\ handlers[h].op \in {"getCommentsByPost", "getPostBySlug"}
    /\ handlers[h].pc = "replies"
    /\ handlers' = [handlers EXCEPT ![h] = IdleHandler]
    /\ lastResp' = [Respond(handlers[h].op, 200, "") EXCEPT
                       !.body = CommentsWithReplies(handlers[h])]
    /\ UNCHANGED <<workflowVars, categories, nextCategoryId, posts, comments, nextCommentId>>

\* two published posts and no comment yet
InitComments ==
    /\ config = [cronSecret |-> "s3cret", openaiKey |-> TRUE,
                 controller |-> "cron", router |-> "plain"]
    /\ now = 0
    /\ users = [u \in UserIds |-> [isAdmin |-> (u = 1)]]
    /\ categories = [c \in CategoryIds |-> [name |-> "Crypto", slug |-> "crypto"]]
    /\ topics = <<>>
    /\ schedules = <<>>
    /\ nextId = 1
    /\ posts = <<[title |-> "BTC Outlook", slug |-> "btc-outlook", authorId |-> 1,
                  categoryId |-> 1, isGenerated |-> FALSE],
                 [title |-> "Macro Week", slug |-> "macro-week", authorId |-> 1,
                  categoryId |-> 1, isGenerated |-> FALSE]>>
    /\ runs = [r \in {1} |-> IdleRun]
    /\ lastResp = NoResponse
    /\ handlers = [h \in {1} |-> IdleHandler]
    /\ nextCategoryId = 2
    /\ comments = <<>>
    /\ nextCommentId = 1

NextComments ==
    \/ \E h \in DOMAIN handlers, caller \in Callers, p \in CommentPostInputs,
          parent \in CommentParentInputs : createComment(h, caller, p, parent)
    \/ \E h \in DOMAIN handlers : CommentPost(h)
    \/ \E h \in DOMAIN handlers : CommentParent(h)
    \/ \E h \in DOMAIN handlers : CommentCreate(h)
    \/ \E caller \in Callers, id \in CommentIdInputs : approveComment(caller, id)
    \/ \E caller \in Callers, id \in CommentIdInputs : deleteComment(caller, id)
    \/ \E h \in DOMAIN handlers, p \in CommentPostInputs : getCommentsByPostRequest(h, p)
    \/ \E h \in DOMAIN handlers, slug \in ReadSlugInputs : getPostBySlug(h, slug)
    \/ \E h \in DOMAIN handlers : ReadPost(h)
    \/ \E h \in DOMAIN handlers : ReadComments(h)
    \/ \E h \in DOMAIN handlers : ReadReplies(h)

SpecComments == InitComments /\ [][NextComments]_vars

\* ---------------------------------------------------------------- deletePost
\* :id of DELETE /api/posts/:id
PostIdInputs == {InvalidId, 1, 2, 3}

\* deletePost up to Post.findById(id), behind protect and admin
deletePost(h, user, id) ==
    /\ Awaiting(h, "idle", "idle")
    /\ IF AdminGate(user) # 0
       THEN Answer(h, "deletePost", AdminGate(user), "Not authorized")
       ELSE IF id = InvalidId
       THEN Answer(h, "deletePost", 400, "Invalid post ID")
       ELSE /\ handlers' = [handlers EXCEPT ![h] =
                   [IdleHandler EXCEPT !.op = "deletePost", !.pc = "find",
                                       !.user = user, !.id = id]]
            /\ UNCHANGED lastResp
    /\ UNCHANGED <<workflowVars, categories, nextCategoryId, posts, comments, nextCommentId>>

\* Post.findById(id) answers
PostFind(h) ==
    /\ Awaiting(h, "deletePost", "find")
    /\ IF ~PostExists(handlers[h].id)
       THEN Answer(h, "deletePost", 404, "Post not found")
       ELSE /\ handlers' = [handlers EXCEPT ![h].pc = "comments"]
            /\ UNCHANGED lastResp
    /\ UNCHANGED <<workflowVars, categories, nextCategoryId, posts, comments, nextCommentId>>

\* what Comment.deleteMany({ postId: post._id }) leaves
CommentsToKeep(postId) == {c \in DOMAIN comments : comments[c].postId # postId}

\* Comment.deleteMany({ postId: post._id }) answers
PostDeleteComments(h) ==
    /\ Awaiting(h, "deletePost", "comments")
    /\ comments' = [c \in CommentsToKeep(handlers[h].id) |-> comments[c]]
    /\ handlers' = [handlers EXCEPT ![h].pc = "post"]
    /\ UNCHANGED <<workflowVars, categories, nextCategoryId, posts, nextCommentId, lastResp>>

\* post.deleteOne() answers
PostDeleteOne(h) ==
    /\ Awaiting(h, "deletePost", "post")
    /\ posts' = [posts EXCEPT ![handlers[h].id] = DeletedPost]
    /\ Answer(h, "deletePost", 200, "Post and associated comments removed")
    /\ UNCHANGED <<workflowVars, categories, nextCategoryId, comments, nextCommentId>>

\* two published posts, two handlers at rest
InitCascade ==
    /\ config = [cronSecret |-> "s3cret", openaiKey |-> TRUE,
                 controller |-> "cron", router |-> "plain"]
    /\ now = 0
    /\ users = [u \in UserIds |-> [isAdmin |-> (u = 1)]]
    /\ categories = [c \in CategoryIds |-> [name |-> "Crypto", slug |-> "crypto"]]
    /\ topics = <<>>
    /\ schedules = <<>>
    /\ nextId = 1
    /\ posts = <<[title |-> "BTC Outlook", slug |-> "btc-outlook", authorId |-> 1,
                  categoryId |-> 1, isGenerated |-> FALSE],
                 [title |-> "Macro Week", slug |-> "macro-week", authorId |-> 1,
                  categoryId |-> 1, isGenerated |-> FALSE]>>
    /\ runs = [r \in {1} |-> IdleRun]
    /\ lastResp = NoResponse
    /\ handlers = [h \in 1..MaxInFlight |-> IdleHandler]
    /\ nextCategoryId = 2
    /\ comments = <<>>
    /\ nextCommentId = 1

\* createComment by a visitor, deletePost by any caller
NextCascade ==
    \/ \E h \in DOMAIN handlers, p \in CommentPostInputs, parent \in {Null, 1} :
          createComment(h, Null, p, parent)
    \/ \E h \in DOMAIN handlers : CommentPost(h)
    \/ \E h \in DOMAIN handlers : CommentParent(h)
    \/ \E h \in DOMAIN handlers : CommentCreate(h)
    \/ \E h \in DOMAIN handlers, user \in Callers, id \in PostIdInputs : deletePost(h, user, id)
    \/ \E h \in DOMAIN handlers : PostFind(h)
    \/ \E h \in DOMAIN handlers : PostDeleteComments(h)
    \/ \E h \in DOMAIN handlers : PostDeleteOne(h)

SpecCascade == InitCascade /\ [][NextCascade]_vars

\* ------------------------------------------------------ users and the gate
\* getScheduledGenerations: the list is read, nothing is written
getScheduledGenerations(user) ==
    /\ lastResp' = Respond("getScheduledGenerations",
                           IF AdminGate(user) # 0 THEN AdminGate(user) ELSE 200, "")
    /\ UNCHANGED <<contentVars, config, now, users, categories, topics, schedules, nextId,
                   posts, runs>>

\* updateUser behind protect and admin: user.isAdmin = req.body.isAdmin; save
updateUser(user, id, isAdmin) ==
    /\ IF AdminGate(user) # 0
       THEN /\ lastResp' = Respond("updateUser", AdminGate(user), "Not authorized")
            /\ UNCHANGED users
       ELSE IF id \notin DOMAIN users
       THEN /\ lastResp' = Respond("updateUser", 404, "User not found")
            /\ UNCHANGED users
       ELSE /\ users' = [users EXCEPT ![id].isAdmin = isAdmin]
            /\ lastResp' = Respond("updateUser", 200, "")
    /\ UNCHANGED <<contentVars, config, now, categories, topics, schedules, nextId, posts, runs>>

\* deleteUser behind protect and admin: user.deleteOne()
deleteUser(user, id) ==
    /\ IF AdminGate(user) # 0
       THEN /\ lastResp' = Respond("deleteUser", AdminGate(user), "Not authorized")
            /\ UNCHANGED users
       ELSE IF id \notin DOMAIN users
       THEN /\ lastResp' = Respond("deleteUser", 404, "User not found")
            /\ UNCHANGED users
       ELSE /\ users' = [u \in DOMAIN users \ {id} |-> users[u]]
            /\ lastResp' = Respond("deleteUser", 200, "User removed")
    /\ UNCHANGED <<contentVars, config, now, categories, topics, schedules, nextId, posts, runs>>

\* what a caller sends to POST /api/generation/schedule while users change
AuthRequests ==
    [topicId : {Null, 1}, title : {"BTC Outlook"}, description : {"Weekly view"},
     categoryId : {1}, scheduledFor : {MaxTime}]

\* the scheduler's routes and the user administration; a token outlives the
\* admin flag and the user record it was issued for
NextAuth ==
    \/ \E user \in Callers, req \in AuthRequests : scheduleGeneration(user, req)
    \/ \E user \in Callers, id \in 1..MaxSchedules : cancelScheduledGeneration(user, id)
    \/ \E user \in Callers : getScheduledGenerations(user)
    \/ \E user \in Callers, id \in UserIds, isAdmin \in BOOLEAN : updateUser(user, id, isAdmin)
    \/ \E user \in Callers, id \in UserIds : deleteUser(user, id)

SpecAuth == InitScheduler /\ [][NextAuth]_vars

\* ------------------------------------------------- scheduler input checking
\* the admin's requests, a title beyond the schema's maxlength among them
ValidationRequests ==
    [topicId : TopicInputs, title : TitleInputs \cup {LongTitle},
     description : DescriptionInputs, categoryId : CategoryInputs,
     scheduledFor : DateInputs]

NextValidation ==
    \/ Tick
    \/ \E req \in ValidationRequests : scheduleGeneration(1, req)
    \/ \E id \in 1..MaxSchedules : cancelScheduledGeneration(1, id)

SpecValidation == InitScheduler /\ [][NextValidation]_vars

\* --------------------------------------------------- overlapping cron calls
\* one due schedule linked to a Topic, and MaxRuns cron requests at rest
InitOverlap ==
    /\ config = [cronSecret |-> "s3cret", openaiKey |-> TRUE,
                 controller |-> "cron", router |-> "plain"]
    /\ now = 0
    /\ users = [u \in UserIds |-> [isAdmin |-> (u = 1)]]
    /\ categories = [c \in CategoryIds |-> [name |-> "Crypto", slug |-> "crypto"]]
    /\ topics = [t \in {1} |->
                    [title |-> "Rate cuts", description |-> "Fed path",
                     categoryId |-> 1, status |-> "approved", scheduledFor |-> 0]]
    /\ schedules = [s \in {1} |->
                       [topicId |-> 1, title |-> "Rate cuts",
                        description |-> "Fed path", categoryId |-> 1, authorId |-> 1,
                        scheduledFor |-> 0, status |-> "pending",
                        generatedPostId |-> Null, errorMessage |-> NoMessage]]
    /\ nextId = 2
    /\ posts = <<>>
    /\ runs = [r \in 1..MaxRuns |-> IdleRun]
    /\ lastResp = NoResponse
    /\ handlers = [h \in {1} |-> IdleHandler]
    /\ nextCategoryId = 2
    /\ comments = <<>>
    /\ nextCommentId = 1

\* the cron endpoint called again before the earlier call has answered
NextOverlap ==
    \/ \E r \in DOMAIN runs : CronRequest(r, config.cronSecret)
    \/ \E r \in DOMAIN runs, api \in ApiOutcomes, title \in GeneratedTitles :
          Generate(r, api, title)
    \/ \E r \in DOMAIN runs : SavePost(r)
    \/ \E r \in DOMAIN runs : SaveSchedule(r, FALSE)
    \/ \E r \in DOMAIN runs : UpdateTopic(r, FALSE)
    \/ \E r \in DOMAIN runs : CatchSave(r, FALSE)

SpecOverlap == InitOverlap /\ [][NextOverlap]_vars

\* ------------------------------------------------------- topic moderation
\* the enum updateTopicStatus accepts
TopicStatuses == {"pending", "approved", "rejected", "generated"}

TopicStatusInputs == {"approved", "rejected", "archived"}

TopicIdInputs == {InvalidId, 1, 3}

\* updateTopicStatus: [status, error, topics]
TopicStatusOutcome(user, id, status) ==
    LET reject(code, msg) == [status |-> code, error |-> msg, topics |-> topics]
    IN  IF AdminGate(user) = 401 THEN reject(401, "Not authorized, no token")
        ELSE IF AdminGate(user) = 403 THEN reject(403, "Not authorized as admin")
        ELSE IF ~IsValidObjectId(id) THEN reject(400, "Invalid topic ID")
        ELSE IF status \notin TopicStatuses THEN reject(400, "Invalid status")
        ELSE IF id \notin DOMAIN topics THEN reject(404, "Topic not found")
        ELSE [status |-> 200, error |-> "",
              topics |-> [topics EXCEPT ![id].status = status]]

\* PATCH /api/topics/:id/status
updateTopicStatus(user, id, status) ==
    LET out == TopicStatusOutcome(user, id, status) IN
    /\ topics' = out.topics
    /\ lastResp' = [op |-> "updateTopicStatus", status |-> out.status,
                    error |-> out.error, schedule |-> Null, body |-> NoBody]
    /\ UNCHANGED <<contentVars, config, now, users, categories, schedules, nextId,
                   posts, runs>>

\* deleteTopic: [status, error, topics]
TopicDeleteOutcome(user, id) ==
    LET reject(code, msg) == [status |-> code, error |-> msg, topics |-> topics]
    IN  IF AdminGate(user) = 401 THEN reject(401, "Not authorized, no token")
        ELSE IF AdminGate(user) = 403 THEN reject(403, "Not authorized as admin")
        ELSE IF ~IsValidObjectId(id) THEN reject(400, "Invalid topic ID")
        ELSE IF id \notin DOMAIN topics THEN reject(404, "Topic not found")
        ELSE [status |-> 200, error |-> "",
              topics |-> [t \in DOMAIN topics \ {id} |-> topics[t]]]

\* DELETE /api/topics/:id
deleteTopic(user, id) ==
    LET out == TopicDeleteOutcome(user, id) IN
    /\ topics' = out.topics
    /\ lastResp' = [op |-> "deleteTopic", status |-> out.status,
                    error |-> out.error, schedule |-> Null, body |-> NoBody]
    /\ UNCHANGED <<contentVars, config, now, users, categories, schedules, nextId,
                   posts, runs>>

\* the scheduler, the topic moderation and a processor whose store does not fail
NextTopics ==
    \/ Tick
    \/ AdminSchedules
    \/ AdminCancels
    \/ \E user \in Callers, id \in TopicIdInputs, status \in TopicStatusInputs :
          updateTopicStatus(user, id, status)
    \/ \E user \in Callers, id \in TopicIdInputs : deleteTopic(user, id)
    \/ \E r \in DOMAIN runs : CronRequest(r, config.cronSecret)
    \/ \E r \in DOMAIN runs, api \in ApiOutcomes, title \in GeneratedTitles :
          Generate(r, api, title)
    \/ \E r \in DOMAIN runs : SavePost(r)
    \/ \E r \in DOMAIN runs : SaveSchedule(r, FALSE)
    \/ \E r \in DOMAIN runs : UpdateTopic(r, FALSE)
    \/ \E r \in DOMAIN runs : CatchSave(r, FALSE)

SpecTopics == InitScheduler /\ [][NextTopics]_vars

\* ------------------------------------------------------------------ claims
RunActs(r) == runs'[r] # runs[r]

NothingStored == UNCHANGED <<topics, schedules, nextId, posts>>

\* C1: with CRON_SECRET unset every cron request, whatever its X-Cron-Secret
\* header, is answered 403, no due-schedule query is issued and no schedule,
\* Topic or Post is created or changed.
C1_UnsetSecretFailsClosed ==
    config.cronSecret = Undefined =>
        /\ \A r \in DOMAIN runs :
              runs[r].pc = "idle" /\ runs[r].resp.status \in {0, 403}
        /\ posts = <<>>
        /\ \A s \in DOMAIN schedules : schedules[s].status = "pending"
        /\ \A t \in DOMAIN topics : topics[t].status # "generated"

\* C2: with CRON_SECRET configured, a request whose header is absent or differs
\* from it is answered 403, starts no processing (no query is issued) and
\* leaves every schedule, Topic and Post as it was.
C2_WrongSecretRejected ==
    [][\A r \in DOMAIN runs, secret \in Secrets :
          (/\ config.cronSecret # Undefined
           /\ secret # config.cronSecret
           /\ CronRequest(r, secret))
          => /\ runs'[r].resp.status = 403
             /\ runs'[r].pc = "idle"
             /\ runs'[r].pendingSchedules = <<>>
             /\ NothingStored]_vars

C2_Witness ==
    \E r \in DOMAIN runs :
        /\ config.cronSecret # Undefined
        /\ runs[r].pc = "idle"
        /\ runs[r].resp.status = 403
        /\ DueSchedules(now) # {}

\* C3: a schedule that was completed or failed when a cron request issued its
\* query is left as it is by every step of that request, and no Post is
\* created for it, however often the processor is invoked.
C3_TerminalUntouched ==
    [][\A r \in DOMAIN runs : RunActs(r) =>
          \A s \in runs[r].terminalAtQuery \cap DOMAIN schedules :
              /\ s \in DOMAIN schedules'
              /\ schedules'[s] = schedules[s]
              /\ posts' # posts => Item(r).id # s]_vars

C3_Witness ==
    \E r \in DOMAIN runs :
        /\ runs[r].pc = "saveSchedule"
        /\ runs[r].terminalAtQuery \cap DOMAIN schedules # {}

\* C4: the stored status of a schedule changes at most once, from pending to
\* completed or failed: a schedule stored as completed or failed keeps that
\* status, also when a later step of the same run throws (stated for a
\* deployment whose CRON_SECRET is set).
C4_StatusChangesOnce ==
    [][\A s \in DOMAIN schedules \cap DOMAIN schedules' :
          (config.cronSecret # Undefined /\ schedules[s].status # "pending")
          => schedules'[s].status = schedules[s].status]_vars

\* C5: an admin's scheduleGeneration with an existing category and a
\* scheduledFor before the current time is answered 400, creates no schedule
\* and leaves the Topic named by topicId as it was.
C5_PastDateRejected ==
    [][lastResp'.op = "scheduleGeneration" =>
          \A user \in {u \in DOMAIN users : users[u].isAdmin},
             c \in DOMAIN categories, date \in 0..(now - 1), t \in TopicInputs,
             title \in TitleInputs, d \in DescriptionInputs :
              scheduleGeneration(user, Req(t, title, d, c, date))
              => /\ lastResp'.status = 400
                 /\ schedules' = schedules
                 /\ nextId' = nextId
                 /\ topics' = topics]_vars

C5_Witness ==
    /\ lastResp.op = "scheduleGeneration"
    /\ lastResp.status = 400
    /\ lastResp.error = "Scheduled date must be in the future"
    /\ \E t \in DOMAIN topics : topics[t].status = "pending"

\* C6: scheduleGeneration accepts a request only if scheduledFor is strictly
\* later than the current time, so a schedule is never due when it is created.
C6_StrictlyFuture ==
    [][lastResp'.status = 201 =>
          \A user \in Callers, req \in Requests :
              scheduleGeneration(user, req)
              => /\ req.scheduledFor > now
                 /\ lastResp'.schedule \notin DueSchedules(now)']_vars

\* C7: a successful scheduleGeneration with a topicId creates exactly one
\* pending schedule (no post, no error message, the caller as author, the given
\* category and date, title and description from the Topic where the request
\* gives none) and sets that Topic to approved with the requested date; no
\* other schedule or Topic changes.
C7_ScheduledFromTopic ==
    [][lastResp'.status = 201 =>
       \A user \in Callers, req \in Requests :
          (req.topicId # Null /\ scheduleGeneration(user, req))
          => LET id == lastResp'.schedule
                 topic == topics[req.topicId]
             IN  /\ users[user].isAdmin
                 /\ id \notin DOMAIN schedules
                 /\ DOMAIN schedules' = DOMAIN schedules \cup {id}
                 /\ \A s \in DOMAIN schedules : schedules'[s] = schedules[s]
                 /\ schedules'[id] =
                       [topicId |-> req.topicId,
                        title |-> IF req.title \in {Undefined, ""}
                                  THEN topic.title ELSE req.title,
                        description |-> IF req.description \in {Undefined, ""}
                                        THEN topic.description ELSE req.description,
                        categoryId |-> req.categoryId,
                        authorId |-> user,
                        scheduledFor |-> req.scheduledFor,
                        status |-> "pending",
                        generatedPostId |-> Null,
                        errorMessage |-> NoMessage]
                 /\ DOMAIN topics' = DOMAIN topics
                 /\ topics'[req.topicId] =
                       [topic EXCEPT !.status = "approved",
                                     !.scheduledFor = req.scheduledFor]
                 /\ \A t \in DOMAIN topics \ {req.topicId} : topics'[t] = topics[t]]_vars

C7_Witness ==
    /\ lastResp.op = "scheduleGeneration"
    /\ lastResp.status = 201
    /\ lastResp.schedule \in DOMAIN schedules
    /\ LET s == schedules[lastResp.schedule]
       IN  /\ s.topicId \in DOMAIN topics
           /\ s.title = topics[s.topicId].title
           /\ s.description = "Weekly view"
           /\ topics[s.topicId].status = "approved"
           /\ topics[s.topicId].scheduledFor = s.scheduledFor

\* C8: an admin's scheduleGeneration with an existing category, a title, a
\* scheduledFor in the future and neither topicId nor description succeeds:
\* a pending schedule is created and returned.
C8_TitleOnlyScheduled ==
    [][lastResp'.op = "scheduleGeneration" =>
          \A user \in {u \in DOMAIN users : users[u].isAdmin},
             c \in DOMAIN categories, date \in (now + 1)..MaxTime :
              scheduleGeneration(user, Req(Null, "BTC Outlook", Undefined, c, date))
              => /\ lastResp'.status = 201
                 /\ lastResp'.schedule \in DOMAIN schedules'
                 /\ schedules'[lastResp'.schedule].status = "pending"]_vars

\* C9: a cron request picks exactly the schedules that are pending and whose
\* scheduledFor is not after its now; a pending schedule with a later
\* scheduledFor is left as it is by every step of the request and is not
\* counted in processed; a request that finds nothing due answers processed 0
\* and changes nothing.
NotDueAt(s, t) == schedules[s].status = "pending" /\ schedules[s].scheduledFor > t

PickedIds(run) == {run.pendingSchedules[k].id : k \in 1..Len(run.pendingSchedules)}

C9_OnlyDueSelected ==
    [][\A r \in DOMAIN runs : RunActs(r) =>
          LET t == IF runs[r].pc = "idle" THEN now ELSE runs[r].now
              answered == runs'[r].pc = "idle" /\ runs'[r].resp.status = 200
          IN  /\ \A s \in DOMAIN schedules : NotDueAt(s, t) =>
                    /\ s \in DOMAIN schedules'
                    /\ schedules'[s] = schedules[s]
                    /\ s \notin PickedIds(runs'[r])
                    /\ posts' # posts => Item(r).id # s
              /\ (runs[r].pc = "idle" /\ runs'[r].pc # "idle") =>
                    /\ PickedIds(runs'[r]) =
                          {s \in DOMAIN schedules :
                              /\ schedules[s].status = "pending"
                              /\ schedules[s].scheduledFor <= now}
                    /\ Len(runs'[r].pendingSchedules) =
                          Cardinality(PickedIds(runs'[r]))
              /\ (runs[r].pc = "idle" /\ answered) =>
                    /\ \A s \in DOMAIN schedules :
                          ~(/\ schedules[s].status = "pending"
                            /\ schedules[s].scheduledFor <= now)
                    /\ runs'[r].resp.processed = 0
                    /\ NothingStored
              /\ (runs[r].pc # "idle" /\ answered) =>
                    runs'[r].resp.processed = Len(runs[r].pendingSchedules)]_vars

C9_Witness ==
    \E r \in DOMAIN runs :
        /\ runs[r].pc = "saveSchedule"
        /\ Len(runs[r].pendingSchedules) = 1
        /\ \E s \in DOMAIN schedules :
              NotDueAt(s, runs[r].now) /\ s < Item(r).id

\* C10: a run over one due pending schedule whose category exists, with the
\* generation service configured and every external call and store write
\* succeeding, persists one generated Post with the schedule's category and the
\* resolved author, completes the schedule with that Post's id, sets a linked
\* Topic to generated and answers processed 1, success 1, failure 0.
C10_DueScheduleGenerated ==
    [][\A r \in DOMAIN runs :
          (/\ RunActs(r)
           /\ runs[r].pc # "idle"
           /\ runs'[r].pc = "idle"
           /\ runs'[r].resp.status = 200
           /\ Len(runs[r].pendingSchedules) = 1
           /\ config.openaiKey
           /\ runs'[r].undisturbed
           /\ Item(r).categoryId \in DOMAIN categories
           /\ runs[r].error # "E11000 duplicate key error")
          => LET s == Item(r).id
                 p == Len(posts')
             IN  /\ runs'[r].resp.processed = 1
                 /\ runs'[r].resp.success = 1
                 /\ runs'[r].resp.failure = 0
                 /\ p >= 1
                 /\ posts'[p].isGenerated
                 /\ posts'[p].categoryId = schedules'[s].categoryId
                 /\ posts'[p].authorId = schedules'[s].authorId
                 /\ schedules'[s].status = "completed"
                 /\ schedules'[s].generatedPostId = p
                 /\ Item(r).topicId # Null =>
                       topics'[Item(r).topicId].status = "generated"]_vars

\* C11: a schedule the processor stores as failed gets a non-empty
\* errorMessage and no generatedPostId, no Post was persisted while it was
\* processed, the step changes no Topic and no Post and counts a failure; an
\* item whose generation gave no result is counted as a failure with the Posts
\* as they were (stated for a deployment whose CRON_SECRET is set).
C11_FailedLeavesNothing ==
    [][\A r \in DOMAIN runs :
          (/\ config.cronSecret # Undefined
           /\ RunActs(r)
           /\ runs[r].pc = "catch"
           /\ Item(r).id \in DOMAIN schedules'
           /\ schedules'[Item(r).id].status = "failed")
          => LET s == schedules'[Item(r).id] IN
             /\ s.errorMessage \notin {NoMessage, "", Undefined}
             /\ s.generatedPostId = Null
             /\ runs[r].savedPost = Null
             /\ posts' = posts
             /\ topics' = topics
             /\ runs'[r].pc = "idle" =>
                   runs'[r].resp.failure = runs[r].failureCount + 1]_vars

\* C12: when a run ends, every schedule it picked up that is still stored is
\* completed or failed and none is left pending, also when one of them was
\* deleted while the run was working (stated for a deployment whose
\* CRON_SECRET is set, and for runs in which no store write and no call of
\* the generation API failed).
C12_ItemsIsolated ==
    [][\A r \in DOMAIN runs :
          (/\ config.cronSecret # Undefined
           /\ RunActs(r)
           /\ runs[r].pc # "idle"
           /\ runs'[r].pc = "idle"
           /\ runs'[r].undisturbed)
          => \A k \in 1..Len(runs[r].pendingSchedules) :
                   LET id == runs[r].pendingSchedules[k].id
                   IN  id \in DOMAIN schedules' =>
                          schedules'[id].status \in {"completed", "failed"}]_vars

\* C13: a summary response has processed = success + failure = the number of
\* result entries = the number of schedules the query returned; the entries
\* follow the order of retrieval, a success entry names the created Post and
\* its title and a failed entry the error message; success is the number of
\* Posts the run persisted (stated for a deployment whose CRON_SECRET is set).
C13_SummaryCounts ==
    [][\A r \in DOMAIN runs :
          (/\ config.cronSecret # Undefined
           /\ RunActs(r)
           /\ runs[r].pc # "idle"
           /\ runs'[r].pc = "idle"
           /\ runs'[r].resp.status = 200)
          => LET resp == runs'[r].resp
                 found == runs[r].pendingSchedules
             IN  /\ resp.processed = Len(found)
                 /\ resp.processed = resp.success + resp.failure
                 /\ Len(resp.results) = resp.processed
                 /\ \A k \in 1..Len(resp.results) :
                       LET e == resp.results[k] IN
                       /\ e.schedule = found[k].id
                       /\ e.status = "success" =>
                             /\ e.post \in DOMAIN posts'
                             /\ e.title = posts'[e.post].title
                       /\ e.status = "failed" =>
                             /\ e.post = Null
                             /\ e.error # ""
                 /\ resp.success =
                       Cardinality({k \in 1..Len(resp.results) :
                                       resp.results[k].status = "success"})
                 /\ resp.success = runs[r].persisted]_vars

\* C14: an admin's cancel of a schedule that is completed or failed is
\* answered 400, deletes and changes no schedule and changes no Topic.
C14_TerminalNotCancelled ==
    [][lastResp'.op = "cancelScheduledGeneration" =>
          \A id \in DOMAIN schedules :
              (/\ schedules[id].status \in {"completed", "failed"}
               /\ cancelScheduledGeneration(1, id))
              => /\ lastResp'.status = 400
                 /\ schedules' = schedules
                 /\ topics' = topics
                 /\ posts' = posts]_vars

C14_Witness ==
    /\ lastResp.op = "cancelScheduledGeneration"
    /\ lastResp.status = 400
    /\ lastResp.error = "Only pending schedules can be cancelled"
    /\ \E s \in DOMAIN schedules :
          /\ schedules[s].status = "failed"
          /\ schedules[s].topicId \in DOMAIN topics
          /\ topics[schedules[s].topicId].status = "approved"
    /\ \E s \in DOMAIN schedules : schedules[s].status = "completed"

\* C15: an admin's cancel of a pending schedule removes exactly that schedule
\* and sets a linked, existing Topic to pending with no date; no other
\* schedule, Topic or Post changes. Ids are never given out twice and a cron
\* request picks only stored schedules, so no later request picks it.
C15_PendingCancelled ==
    [][/\ lastResp'.op = "cancelScheduledGeneration" =>
             \A id \in DOMAIN schedules :
                 (schedules[id].status = "pending" /\ cancelScheduledGeneration(1, id))
                 => LET t == schedules[id].topicId IN
                    /\ lastResp'.status = 200
                    /\ DOMAIN schedules' = DOMAIN schedules \ {id}
                    /\ \A s \in DOMAIN schedules' : schedules'[s] = schedules[s]
                    /\ DOMAIN topics' = DOMAIN topics
                    /\ \A u \in DOMAIN topics :
                          topics'[u] = IF u = t
                                       THEN [topics[u] EXCEPT !.status = "pending",
                                                              !.scheduledFor = NoDate]
                                       ELSE topics[u]
                    /\ posts' = posts
       /\ nextId' >= nextId
       /\ \A s \in DOMAIN schedules : s < nextId
       /\ \A s \in DOMAIN schedules' \ DOMAIN schedules : s = nextId /\ nextId' > s
       /\ \A r \in DOMAIN runs :
             (runs[r].pc = "idle" /\ runs'[r].pc # "idle")
             => PickedIds(runs'[r]) \subseteq DOMAIN schedules]_vars

C15_Witness ==
    /\ lastResp.op = "cancelScheduledGeneration"
    /\ lastResp.status = 200
    /\ topics[1].status = "pending"
    /\ topics[1].scheduledFor = NoDate
    /\ \E c \in 1..(nextId - 1), r \in DOMAIN runs :
          /\ c \notin DOMAIN schedules
          /\ runs[r].pc = "savePost"
          /\ c \notin PickedIds(runs[r])
          /\ \E s \in DOMAIN schedules : s > c /\ s \in PickedIds(runs[r])

C17_PostCategoryExists ==
    \A p \in DOMAIN posts : posts[p].categoryId \in DOMAIN categories

\* C18: no two Posts share a slug and no two Categories share a name or a
\* slug, in every reachable state; a creation or a save whose slug or name is
\* already held, two concurrent creations and the processor's own save
\* included, is answered with an error, or thrown to the processor's catch
\* block, and leaves Posts and Categories as they were.
UniqueKeys ==
    /\ \A p, q \in DOMAIN posts : p # q => posts[p].slug # posts[q].slug
    /\ \A c, d \in DOMAIN categories :
          c # d => /\ categories[c].name # categories[d].name
                   /\ categories[c].slug # categories[d].slug

Refused == /\ lastResp'.status \in {400, 500}
           /\ posts' = posts
           /\ categories' = categories

C18_SlugsAndNamesUnique ==
    /\ []UniqueKeys
    /\ [][/\ \A h \in DOMAIN handlers : handlers'[h] # handlers[h] =>
                LET hd == handlers[h] IN
                /\ (/\ Awaiting(h, "createPost", "create")
                    /\ \E p \in DOMAIN posts : posts[p].slug = CastSlug(hd.slug))
                   => Refused
                /\ (/\ Awaiting(h, "updatePost", "save")
                    /\ \E p \in DOMAIN posts : p # hd.id /\ posts[p].slug = hd.slug)
                   => Refused
                /\ (/\ Awaiting(h, "createCategory", "create")
                    /\ \E c \in DOMAIN categories :
                          \/ categories[c].name = Trim(hd.name)
                          \/ categories[c].slug = CastSlug(hd.slug))
                   => Refused
                /\ (/\ Awaiting(h, "updateCategory", "save")
                    /\ \E c \in DOMAIN categories :
                          /\ c # hd.id
                          /\ \/ categories[c].name = hd.name
                             \/ categories[c].slug = hd.slug)
                   => Refused
                /\ \A slug \in PostSlugInputs :
                      (/\ createPost(h, 1, slug, 1)
                       /\ \E p \in DOMAIN posts : posts[p].slug = CastSlug(slug))
                      => lastResp'.status = 400 /\ Refused
                /\ \A name \in CategoryNameInputs, slug \in CategorySlugInputs :
                      (/\ createCategory(h, 1, name, slug)
                       /\ \E c \in DOMAIN categories :
                             \/ categories[c].name = Trim(name)
                             \/ categories[c].slug = CastSlug(slug))
                      => lastResp'.status = 400 /\ Refused
          /\ \A r \in DOMAIN runs :
                (/\ RunActs(r)
                 /\ runs[r].pc = "savePost"
                 /\ \E p \in DOMAIN posts : posts[p].slug = runs[r].postData.slug)
                => /\ runs'[r].pc = "catch"
                   /\ posts' = posts
                   /\ categories' = categories]_vars

C18_Witness ==
    /\ lastResp.op = "createPost"
    /\ lastResp.status = 500
    /\ lastResp.error = "E11000 duplicate key error"
    /\ Len(posts) = 2
    /\ \E p \in DOMAIN posts : posts[p].slug = "btc-outlook" /\ posts[p].isGenerated
    /\ Cardinality(DOMAIN categories) = 2

ParentOfSamePost ==
    \A c \in DOMAIN comments :
        comments[c].parentId # Null =>
            /\ comments[c].parentId \in DOMAIN comments
            /\ comments[comments[c].parentId].postId = comments[c].postId

ParentRejected(h) ==
    LET req == handlers[h] IN
    /\ Awaiting(h, "createComment", "parent")
    /\ handlers'[h] # req
    /\ req.parentId \notin DOMAIN comments \/ comments[req.parentId].postId # req.id

\* C19: every stored Comment with a non-null parentId references a stored
\* comment of the same Post, and createComment answers 404 to a parentId that
\* names no comment and 400 to one whose comment belongs to another post,
\* storing nothing in either case.
C19_ParentInSamePost ==
    /\ []ParentOfSamePost
    /\ [][\A h \in DOMAIN handlers :
            ParentRejected(h) =>
                /\ lastResp'.op = "createComment"
                /\ lastResp'.status =
                       IF handlers[h].parentId \notin DOMAIN comments THEN 404 ELSE 400
                /\ UNCHANGED <<comments, nextCommentId>>]_vars

AuthenticatedAdmin(caller) == caller # Null /\ users[caller].isAdmin

Submitted(h) == Awaiting(h, "createComment", "create") /\ handlers'[h] # handlers[h]

\* C20: a comment created through POST /api/posts/:postId/comments starts
\* approved exactly when the caller who submitted it is an authenticated
\* admin; a comment that is not approved is in no public read of a post, and
\* it becomes approved only by an approveComment applied to it.
C20_AdminAutoApproved ==
    /\ [](\A p \in 1..Len(posts) : \A c \in getCommentsByPost(p) : comments[c].isApproved)
    /\ [][/\ \A h \in DOMAIN handlers :
                Submitted(h) =>
                    /\ nextCommentId \in DOMAIN comments'
                    /\ comments'[nextCommentId].isApproved
                           <=> AuthenticatedAdmin(handlers[h].principal)
          /\ \A c \in DOMAIN comments \cap DOMAIN comments' :
                (~comments[c].isApproved /\ comments'[c].isApproved) =>
                    /\ lastResp'.op = "approveComment"
                    /\ lastResp'.status = 200]_vars

Reading(h, pc) ==
    /\ handlers[h].op \in {"getCommentsByPost", "getPostBySlug"}
    /\ handlers[h].pc = pc
    /\ handlers'[h] # handlers[h]

\* C21: a public read of a post (getCommentsByPost, getPostBySlug) finds
\* exactly the stored comments of the post that are approved and have no
\* parentId, and answers each of them with exactly the stored approved
\* comments whose parentId it is; nothing unapproved and nothing of another
\* post is in the answer.
C21_PublicReadApprovedOnly ==
    [][\A h \in DOMAIN handlers :
          LET post == handlers[h].id IN
          /\ Reading(h, "find") =>
                handlers'[h].found =
                    {c \in DOMAIN comments : /\ comments[c].postId = post
                                             /\ comments[c].isApproved
                                             /\ comments[c].parentId = Null}
          /\ Reading(h, "replies") =>
                /\ lastResp'.status = 200
                /\ DOMAIN lastResp'.body = handlers[h].found
                /\ \A c \in DOMAIN lastResp'.body :
                      /\ c \in DOMAIN comments =>
                            comments[c].isApproved /\ comments[c].postId = post
                      /\ lastResp'.body[c] =
                            {r \in DOMAIN comments : /\ comments[r].parentId = c
                                                     /\ comments[r].isApproved}
                      /\ \A r \in lastResp'.body[c] : comments[r].postId = post]_vars

C21_Witness ==
    /\ lastResp.op \in {"getCommentsByPost", "getPostBySlug"}
    /\ lastResp.status = 200
    /\ \E c \in DOMAIN lastResp.body :
          /\ lastResp.body[c] # {}
          /\ \E r \in DOMAIN comments :
                comments[r].parentId = c /\ ~comments[r].isApproved
    /\ \E c \in DOMAIN comments : c \notin DOMAIN lastResp.body

\* C22: an approveComment that approves comment c changes the public comment
\* list of c's post by adding c and nothing else, for a top-level comment and
\* for a reply, whatever the approval of c's parent and of c's replies.
C22_ApproveRevealsOnlyItself ==
    [][\A c \in DOMAIN comments :
          (/\ lastResp'.op = "approveComment"
           /\ lastResp'.status = 200
           /\ c \in DOMAIN comments'
           /\ ~comments[c].isApproved
           /\ comments'[c].isApproved) =>
              getCommentsByPost(comments[c].postId)' =
                  getCommentsByPost(comments[c].postId) \cup {c}]_vars

Removed == DOMAIN comments \ DOMAIN comments'

\* C23: a deleteComment answered 200 removes, for a comment without parentId,
\* that comment and the comments whose parentId it is, and for a reply that
\* reply alone; every other comment stays as it was.
C23_DeleteCascadesOneLevel ==
    [][(lastResp'.op = "deleteComment" /\ lastResp'.status = 200 /\ UNCHANGED handlers) =>
          /\ \E c \in Removed :
                Removed = IF comments[c].parentId = Null
                          THEN {c} \cup {r \in DOMAIN comments : comments[r].parentId = c}
                          ELSE {c}
          /\ DOMAIN comments' \subseteq DOMAIN comments
          /\ \A c \in DOMAIN comments' : comments'[c] = comments[c]
          /\ UNCHANGED <<posts, nextCommentId>>]_vars

C23_Witness ==
    /\ lastResp.op = "deleteComment"
    /\ lastResp.status = 200
    /\ nextCommentId = 4
    /\ DOMAIN comments = {3}
    /\ comments[3].parentId = 2

RECURSIVE AncestorsApproved(_)
AncestorsApproved(c) ==
    \/ comments[c].parentId = Null
    \/ /\ comments[c].parentId \in DOMAIN comments
       /\ comments[comments[c].parentId].isApproved
       /\ AncestorsApproved(comments[c].parentId)

\* C24: every stored approved comment whose ancestors are all stored and
\* approved is in the public read of its post, a reply to a reply included.
C24_RepliesFlattened ==
    \A c \in DOMAIN comments :
        (comments[c].isApproved /\ AncestorsApproved(c)) =>
            c \in getCommentsByPost(comments[c].postId)

CommentsOfStoredPosts == \A c \in DOMAIN comments : PostExists(comments[c].postId)

\* C25: in every reachable state each stored Comment's postId names a stored
\* Post, a createComment running concurrently with deletePost included, and a
\* deletePost answered 200 leaves no Comment of the Post it removed.
C25_CommentPostExists ==
    /\ []CommentsOfStoredPosts
    /\ [][\A h \in DOMAIN handlers :
            (Awaiting(h, "deletePost", "post") /\ handlers'[h] # handlers[h]) =>
                /\ ~PostExists(handlers[h].id)'
                /\ \A c \in DOMAIN comments' : comments'[c].postId # handlers[h].id]_vars

StoredAdmin(user) == user # Null /\ user \in DOMAIN users /\ users[user].isAdmin

Turned(op, user) ==
    /\ lastResp'.op = op
    /\ lastResp'.status = IF user = Null THEN 401 ELSE lastResp'.status
    /\ lastResp'.status \in {401, 403}
    /\ UNCHANGED <<schedules, topics, nextId>>

\* C26: scheduleGeneration, getScheduledGenerations and
\* cancelScheduledGeneration answer 401 to a caller without a token and 401 or
\* 403 to a caller whose stored user record is gone or does not have isAdmin
\* set when the request arrives, and then no schedule and no Topic is
\* created, changed or deleted.
C26_AdminOnlyScheduling ==
    [][\A user \in Callers :
          ~StoredAdmin(user) =>
              /\ \A req \in AuthRequests :
                    scheduleGeneration(user, req) => Turned("scheduleGeneration", user)
              /\ \A id \in 1..MaxSchedules :
                    cancelScheduledGeneration(user, id) =>
                        Turned("cancelScheduledGeneration", user)
              /\ getScheduledGenerations(user) =>
                        Turned("getScheduledGenerations", user)]_vars

C26_Witness ==
    /\ 1 \in DOMAIN users
    /\ \A u \in DOMAIN users : ~users[u].isAdmin
    /\ lastResp.op = "cancelScheduledGeneration"
    /\ lastResp.status = 403
    /\ \E s \in DOMAIN schedules : schedules[s].status = "pending"

BadRequest(req) ==
    \/ ~IsValidObjectId(req.categoryId)
    \/ req.categoryId \notin DOMAIN categories
    \/ req.topicId # Null /\ (~IsValidObjectId(req.topicId) \/ req.topicId \notin DOMAIN topics)
    \/ req.scheduledFor = InvalidDate
    \/ req.scheduledFor < now
    \/ req.title # Undefined /\ Len(req.title) > MaxTitleLen
    \/ Falsy(req.description) /\ req.topicId = Null

\* C27: an admin's scheduleGeneration whose category id or topic id is
\* malformed or names nothing, whose date does not parse or is past, whose
\* title is longer than the schema allows, or which has neither description
\* nor topic, is answered 4xx; no schedule is created and every Topic keeps
\* its status and scheduledFor.
C27_BadRequestRejected ==
    [][lastResp'.op = "scheduleGeneration" =>
          \A user \in {u \in DOMAIN users : users[u].isAdmin} :
             \A req \in {q \in ValidationRequests : BadRequest(q)} :
                scheduleGeneration(user, req)
                => /\ lastResp'.status \in 400..499
                   /\ UNCHANGED <<schedules, nextId, topics>>]_vars

\* C28: cron calls do not exclude each other: a call reads every schedule
\* that is pending and due, one that an earlier call has read and is still
\* working on included, and each call that saves the schedule overwrites
\* generatedPostId with its own Post, so that after two overlapping calls two
\* Posts exist for one schedule and the schedule names the one saved last.
C28_OverlapGeneratesTwice ==
    [][\A r \in DOMAIN runs :
          /\ (runs[r].pc = "idle" /\ RunActs(r) /\ runs'[r].resp.status # 403) =>
                PickedIds(runs'[r]) = DueSchedules(now)
          /\ (runs[r].pc = "saveSchedule" /\ RunActs(r)
                /\ Item(r).id \in DOMAIN schedules) =>
                /\ schedules'[Item(r).id].status = "completed"
                /\ schedules'[Item(r).id].generatedPostId = runs[r].savedPost]_vars

C28_Witness ==
    /\ \A r \in DOMAIN runs : runs[r].pc = "idle"
    /\ \E r1, r2 \in DOMAIN runs :
          /\ r1 # r2
          /\ runs[r1].resp.success = 1
          /\ runs[r2].resp.success = 1
    /\ Len(posts) = 2
    /\ posts[1].slug # posts[2].slug
    /\ schedules[1].status = "completed"
    /\ schedules[1].generatedPostId = 1

Cancelled(id) == id \notin DOMAIN schedules /\ id < nextId

\* C29: once a cancel has removed schedule S, no step of a cron request that
\* had read S as due stores a Post for S or sets the Topic linked to S to
\* generated.
C29_CancelledYieldsNoPost ==
    [][\A r \in DOMAIN runs :
          (runs[r].pc # "idle" /\ RunActs(r) /\ Cancelled(Item(r).id)) =>
              /\ posts' = posts
              /\ topics' = topics]_vars

\* a schedule that waits for the processor and names a Topic
PendingWithTopic(s) == schedules[s].status = "pending" /\ schedules[s].topicId # Null

\* C30: in every reachable state, the Topic of every pending schedule that
\* names one is stored, has status approved and has a scheduledFor date.
C30_PendingTopicApproved ==
    \A s \in DOMAIN schedules :
        PendingWithTopic(s) =>
            /\ schedules[s].topicId \in DOMAIN topics
            /\ topics[schedules[s].topicId].status = "approved"
            /\ topics[schedules[s].topicId].scheduledFor # NoDate

====
